---- MODULE Spec2Model ----
(***************************************************************************)
(* Model of NintbotForDiscord/CommandRegistry.py: the command table (two   *)
(* insertion-ordered lists of entries) and the asynchronous dispatcher     *)
(* handle_command.                                                         *)
(*                                                                         *)
(* Strings are sequences of one-character strings, so that lstrip, the     *)
(* regular-expression compiler and the matcher can be computed on them.    *)
(***************************************************************************)
EXTENDS Integers, Sequences, FiniteSets, TLC

None == "None"

Range(s) == {s[i] : i \in 1..Len(s)}

\* F(e), with e evaluated once
With(e, F(_)) == CHOOSE y \in {F(x) : x \in {e}} : TRUE

(***************************************************************************)
(* str.lstrip(chars): drops leading characters as long as they belong to   *)
(* the SET of characters of `chars`.                                       *)
(***************************************************************************)
RECURSIVE lstrip(_, _)
lstrip(s, chars) ==
    IF s # <<>> /\ s[1] \in Range(chars)
    THEN lstrip(Tail(s), chars)
    ELSE s

(***************************************************************************)
(* re.compile for the syntax used by the patterns of the model: literal    *)
(* characters, ".", "^", "$", groups "(...)", and the quantifiers "?",     *)
(* "*", "+" with their lazy forms "??", "*?", "+?".  The result is         *)
(* [ok, nodes, next, ng]; ok = FALSE stands for re.error.                  *)
(* A node is [kind, c, q, body, gi].                                       *)
(***************************************************************************)
Quants == {"?", "*", "+"}

Node(kind, c, body, gi) == [kind |-> kind, c |-> c, q |-> "1", body |-> body, gi |-> gi]

ParseError == [ok |-> FALSE, nodes |-> <<>>, next |-> 0, ng |-> 0]

RECURSIVE ParseItems(_, _, _, _)
ParseItems(src, i, ng, acc) ==
    IF i > Len(src) \/ src[i] = ")"
    THEN [ok |-> TRUE, nodes |-> acc, next |-> i, ng |-> ng]
    ELSE IF src[i] \in Quants
    THEN IF acc = <<>> \/ acc[Len(acc)].kind \in {"bol", "eol"}
         THEN ParseError                                \* nothing to repeat
         ELSE IF acc[Len(acc)].q = "1"
         THEN ParseItems(src, i + 1, ng, [acc EXCEPT ![Len(acc)].q = src[i]])
         ELSE IF src[i] = "?" /\ acc[Len(acc)].q \in Quants
         THEN ParseItems(src, i + 1, ng,
                         [acc EXCEPT ![Len(acc)].q = @ \o "?"])
         ELSE ParseError                                \* multiple repeat
    ELSE IF src[i] = "("
    THEN LET r == ParseItems(src, i + 1, ng + 1, <<>>)
         IN  IF ~r.ok \/ r.next > Len(src)
             THEN ParseError                            \* missing )
             ELSE ParseItems(src, r.next + 1, r.ng,
                             Append(acc, Node("group", "", r.nodes, ng + 1)))
    ELSE IF src[i] = "."
    THEN ParseItems(src, i + 1, ng, Append(acc, Node("any", "", <<>>, 0)))
    ELSE IF src[i] = "^"
    THEN ParseItems(src, i + 1, ng, Append(acc, Node("bol", "", <<>>, 0)))
    ELSE IF src[i] = "$"
    THEN ParseItems(src, i + 1, ng, Append(acc, Node("eol", "", <<>>, 0)))
    ELSE ParseItems(src, i + 1, ng, Append(acc, Node("lit", src[i], <<>>, 0)))

\* re.compile(pattern): [ok, nodes, groups]
re_compile(src) ==
    LET r == ParseItems(src, 1, 0, <<>>)
    IN  IF ~r.ok \/ r.next <= Len(src)                  \* unbalanced parenthesis
        THEN [ok |-> FALSE, nodes |-> <<>>, groups |-> 0]
        ELSE [ok |-> TRUE, nodes |-> r.nodes, groups |-> r.ng]

(***************************************************************************)
(* The backtracking matcher.  A match state is [start, pos, caps]; caps[g] *)
(* is <<from, to>> (0-based offsets) or NoSpan when group g took no part.  *)
(* Every operator returns the sequence of the states it can end in, in the *)
(* order in which backtracking tries them; the first one is the match.     *)
(***************************************************************************)
NoSpan == <<-1, -1>>

StartAt(p, groups) == [start |-> p, pos |-> p, caps |-> [g \in 1..groups |-> NoSpan]]

RECURSIVE Items(_, _, _, _)
RECURSIVE ThenItems(_, _, _, _, _)
RECURSIVE Item(_, _, _)
RECURSIVE Atom(_, _, _)
RECURSIVE Rep(_, _, _, _)
RECURSIVE ThenRep(_, _, _, _, _)

Atom(n, s, st) ==
    CASE n.kind = "lit" ->
            IF st.pos < Len(s) /\ s[st.pos + 1] = n.c
            THEN <<[st EXCEPT !.pos = @ + 1]>> ELSE <<>>
      [] n.kind = "any" ->
            IF st.pos < Len(s) /\ s[st.pos + 1] # "\n"
            THEN <<[st EXCEPT !.pos = @ + 1]>> ELSE <<>>
      [] n.kind = "bol" -> IF st.pos = 0 THEN <<st>> ELSE <<>>
      [] n.kind = "eol" ->
            IF st.pos = Len(s) \/ (st.pos = Len(s) - 1 /\ s[Len(s)] = "\n")
            THEN <<st>> ELSE <<>>
      [] n.kind = "group" ->
            With(Items(n.body, 1, s, st), LAMBDA rs :
                [i \in 1..Len(rs) |->
                    [rs[i] EXCEPT !.caps[n.gi] = <<st.pos, rs[i].pos>>]])

\* one more repetition from each state of rs that moved forward, then the rest
ThenRep(rs, i, n, s, greedy) ==
    IF i > Len(rs) THEN <<>>
    ELSE Rep(n, s, rs[i], greedy) \o ThenRep(rs, i + 1, n, s, greedy)

Rep(n, s, st, greedy) ==
    With(SelectSeq(Atom(n, s, st), LAMBDA r : r.pos > st.pos), LAMBDA once :
        IF greedy THEN ThenRep(once, 1, n, s, greedy) \o <<st>>
        ELSE <<st>> \o ThenRep(once, 1, n, s, greedy))

Item(n, s, st) ==
    CASE n.q = "1"  -> Atom(n, s, st)
      [] n.q = "?"  -> Atom(n, s, st) \o <<st>>
      [] n.q = "??" -> <<st>> \o Atom(n, s, st)
      [] n.q = "*"  -> Rep(n, s, st, TRUE)
      [] n.q = "*?" -> Rep(n, s, st, FALSE)
      [] n.q = "+"  -> With(Atom(n, s, st), LAMBDA rs : ThenRep(rs, 1, n, s, TRUE))
      [] n.q = "+?" -> With(Atom(n, s, st), LAMBDA rs : ThenRep(rs, 1, n, s, FALSE))

ThenItems(rs, i, nodes, k, s) ==
    IF i > Len(rs) THEN <<>>
    ELSE Items(nodes, k, s, rs[i]) \o ThenItems(rs, i + 1, nodes, k, s)

Items(nodes, k, s, st) ==
    IF k > Len(nodes) THEN <<st>>
    ELSE With(Item(nodes[k], s, st), LAMBDA rs : ThenItems(rs, 1, nodes, k + 1, s))

\* the value standing for "no match" (Python's None in place of a match object)
NoMatch == [start |-> -1, pos |-> -1, caps |-> <<>>]

\* the match of the compiled pattern starting exactly at offset p, or NoMatch
MatchAt(pat, s, p) ==
    With(Items(pat.nodes, 1, s, StartAt(p, pat.groups)), LAMBDA rs :
        IF rs = <<>> THEN NoMatch ELSE rs[1])

\* Pattern.match(string): a match anchored at the start of the string only
re_match(pat, s) == MatchAt(pat, s, 0)

\* the text of a span of s ("" for a group that took no part)
SpanText(s, span) ==
    IF span = NoSpan THEN <<>> ELSE SubSeq(s, span[1] + 1, span[2])

\* what findall lists for one match: the whole match without groups, the
\* group with one group, the tuple of all groups with several
FindallItem(pat, s, m) ==
    IF pat.groups = 0
    THEN [tuple |-> FALSE, v |-> <<SubSeq(s, m.start + 1, m.pos)>>]
    ELSE IF pat.groups = 1
    THEN [tuple |-> FALSE, v |-> <<SpanText(s, m.caps[1])>>]
    ELSE [tuple |-> TRUE, v |-> [g \in 1..pat.groups |-> SpanText(s, m.caps[g])]]

\* Pattern.findall(string): scans the string for non-overlapping matches
RECURSIVE FindallFrom(_, _, _)
FindallFrom(pat, s, p) ==
    IF p > Len(s) THEN <<>>
    ELSE With(MatchAt(pat, s, p), LAMBDA m :
             IF m = NoMatch THEN FindallFrom(pat, s, p + 1)
             ELSE <<FindallItem(pat, s, m)>>
                  \o FindallFrom(pat, s, IF m.pos = p THEN p + 1 ELSE m.pos))

re_findall(pat, s) == FindallFrom(pat, s, 0)

(***************************************************************************)
(* The collaborators of the registry.                                      *)
(***************************************************************************)
Users == {"admin", "guest"}

Permissions == {"everyone", "admin_only"}

\* Permission.has_permission(user)
has_permission(perm, user) == perm = "everyone" \/ user = "admin"

Plugins == {"p1", "p2"}

\* plugin.manifest["name"]
manifest_name(plugin) == IF plugin = "p1" THEN "Alpha" ELSE "Beta"

\* CommandSentEvent(message, author, channel, command, args); content is the
\* text of the message
CommandSentEvent(message, author, channel, command, args) ==
    [message |-> message, author |-> author, channel |-> channel,
     command |-> command, args |-> args, content |-> message.content]

\* bot.config["command_prefix"]
CommandPrefixes == {<<"!">>, <<"!", "?">>}

(***************************************************************************)
(* The inputs of the registry's operations.                                *)
(***************************************************************************)
Names == {"hello", "slow"}

Descriptions == {"text"}

Handlers == {None, "H"}

\* pattern sources: a, ^a$, a(.+), a(b)?, (a)(b), and the malformed a( and +a
Patterns ==
    { <<"a">>,
      <<"^", "a", "$">>,
      <<"a", "(", ".", "+", ")">>,
      <<"a", "(", "b", ")", "?">>,
      <<"(", "a", ")", "(", "b", ")">>,
      <<"a", "(">>,
      <<"+", "a">> }

\* message texts: !a, !ab, !!a, a, ?!abb, !ba, !aba
Contents ==
    { <<"!", "a">>, <<"!", "a", "b">>, <<"!", "!", "a">>, <<"a">>,
      <<"?", "!", "a", "b", "b">>, <<"!", "b", "a">>, <<"!", "a", "b", "a">> }

Dispatches == {"d1", "d2"}

VARIABLES
    _commands,          \* self._commands
    _modern_commands,   \* self._modern_commands
    command_prefix,     \* self.bot.config["command_prefix"]
    lastOp,             \* the last table operation called, with the tables before it
    pc,                 \* per dispatch: where handle_command stands
    command_name,       \* per dispatch: the parameter command_name
    args,               \* per dispatch: the parameter args
    it,                 \* per dispatch: the list iterator's index of the next entry
    calls,              \* per dispatch: the handler invocations made, with outcome
    warnings,           \* per dispatch: what was given to bot.logger.warning
    interleaved         \* per dispatch: the table changes made while it was in flight

tables == <<_commands, _modern_commands>>
dvars == <<pc, command_name, args, it, calls, warnings>>
vars == <<_commands, _modern_commands, command_prefix, lastOp,
          pc, command_name, args, it, calls, warnings, interleaved>>

\* lastOp is a journal of the table operations: the operation, its arguments,
\* the tables it found and whether it raised.  It is kept from NoOp on and
\* stays JournalOff in the specifications that do not read it.
NoOp == [op |-> "none", a |-> <<>>, pre |-> <<<<>>, <<>>>>, raised |-> FALSE]

JournalOff == [op |-> "off", a |-> <<>>, pre |-> <<<<>>, <<>>>>, raised |-> FALSE]

Op(op, a, raised) ==
    IF lastOp = JournalOff THEN JournalOff
    ELSE [op |-> op, a |-> a, pre |-> tables, raised |-> raised]

\* the journal entry of a query: the operation, its argument and what it returned
Query(op, a, result) ==
    [op |-> op, a |-> a, pre |-> tables, raised |-> FALSE, result |-> result]

InFlight(d) == pc[d] \in {"await_exact", "await_modern"}

\* a table operation that changes a table is seen by the dispatches in flight
Mutation ==
    interleaved' = [d \in Dispatches |->
                       IF InFlight(d) /\ tables' # tables
                       THEN interleaved[d] + 1 ELSE interleaved[d]]

(***************************************************************************)
(* __init__                                                                *)
(***************************************************************************)
Constructed(journal) ==
    /\ _commands = <<>>
    /\ _modern_commands = <<>>
    /\ command_prefix = <<"!">>
    /\ lastOp = journal
    /\ pc = [d \in Dispatches |-> "idle"]
    /\ command_name = [d \in Dispatches |-> None]
    /\ args = [d \in Dispatches |-> None]
    /\ it = [d \in Dispatches |-> 0]
    /\ calls = [d \in Dispatches |-> <<>>]
    /\ warnings = [d \in Dispatches |-> <<>>]
    /\ interleaved = [d \in Dispatches |-> 0]

Init == Constructed(JournalOff)

(***************************************************************************)
(* The table operations.                                                   *)
(***************************************************************************)
\* a uniqueness check: a name the plugin has registered is not registered again
register_command_unique(command, description, required_perm, plugin, command_handler) ==
    /\ _commands' =
           IF \E k \in 1..Len(_commands) :
                  _commands[k].command = command /\ _commands[k].plugin = plugin
           THEN _commands
           ELSE Append(_commands,
                    [command |-> command, description |-> description,
                     required_permission |-> required_perm, plugin |-> plugin,
                     handler |-> command_handler])
    /\ lastOp' = Op("register_command", <<command, plugin>>, FALSE)
    /\ UNCHANGED <<_modern_commands, command_prefix, dvars>>
    /\ Mutation

register_command(command, description, required_perm, plugin, command_handler) ==
    /\ _commands' = Append(_commands,
            [command |-> command, description |-> description,
             required_permission |-> required_perm, plugin |-> plugin,
             handler |-> command_handler])
    /\ lastOp' = Op("register_command", <<command, plugin>>, FALSE)
    /\ UNCHANGED <<_modern_commands, command_prefix, dvars>>
    /\ Mutation

\* the entry appended with the pattern source, compiled at the first dispatch
\* only: a malformed pattern is in the table when re.error reaches the caller
register_modern_command_uncompiled(command, description, required_perm, plugin, command_handler) ==
    /\ _modern_commands' = Append(_modern_commands,
            [command |-> re_compile(command), command_string |-> command,
             description |-> description, required_permission |-> required_perm,
             plugin |-> plugin, handler |-> command_handler])
    /\ lastOp' = Op("register_modern_command", <<command, plugin>>,
                    ~re_compile(command).ok)
    /\ UNCHANGED <<_commands, command_prefix, dvars>>
    /\ Mutation

register_modern_command(command, description, required_perm, plugin, command_handler) ==
    /\ LET compiled == re_compile(command)
       IN  IF compiled.ok
           THEN /\ _modern_commands' = Append(_modern_commands,
                        [command |-> compiled, command_string |-> command,
                         description |-> description,
                         required_permission |-> required_perm,
                         plugin |-> plugin, handler |-> command_handler])
                /\ lastOp' = Op("register_modern_command", <<command, plugin>>, FALSE)
           ELSE /\ UNCHANGED _modern_commands           \* re.error reaches the caller
                /\ lastOp' = Op("register_modern_command", <<command, plugin>>, TRUE)
    /\ UNCHANGED <<_commands, command_prefix, dvars>>
    /\ Mutation

\* list.remove(x): drops the first element equal to x; ValueError without one
list_remove(list, x) ==
    IF \E k \in 1..Len(list) : list[k] = x
    THEN LET k == CHOOSE k \in 1..Len(list) :
                      list[k] = x /\ \A j \in 1..(k - 1) : list[j] # x
         IN  [raised |-> FALSE, list |-> SubSeq(list, 1, k - 1) \o SubSeq(list, k + 1, Len(list))]
    ELSE [raised |-> TRUE, list |-> list]

\* the loop left at its first removal (a break after list.remove)
RECURSIVE UnregisterLoop_first(_, _, _, _, _)
UnregisterLoop_first(copy, k, list, name, plugin) ==
    IF k > Len(copy) THEN [raised |-> FALSE, list |-> list]
    ELSE IF copy[k].command = name /\ copy[k].plugin = plugin
    THEN list_remove(list, copy[k])
    ELSE UnregisterLoop_first(copy, k + 1, list, name, plugin)

\* for command in copy[k..]: if command["command"] == command_name and
\* command["plugin"] == plugin: list.remove(command)
RECURSIVE UnregisterLoop(_, _, _, _, _)
UnregisterLoop(copy, k, list, name, plugin) ==
    IF k > Len(copy) THEN [raised |-> FALSE, list |-> list]
    ELSE IF copy[k].command = name /\ copy[k].plugin = plugin
    THEN LET r == list_remove(list, copy[k])
         IN  IF r.raised THEN r
             ELSE UnregisterLoop(copy, k + 1, r.list, name, plugin)
    ELSE UnregisterLoop(copy, k + 1, list, name, plugin)

unregister_command(name, plugin) ==
    /\ LET r == UnregisterLoop(_commands, 1, _commands, name, plugin)
       IN  /\ _commands' = r.list
           /\ lastOp' = Op("unregister_command", <<name, plugin>>, r.raised)
    /\ UNCHANGED <<_modern_commands, command_prefix, dvars>>
    /\ Mutation

\* the loop over the list itself in place of its copy [:]: the iterator's index
\* goes on by one after a removal
RECURSIVE UnregisterAllLoop_live(_, _, _, _)
UnregisterAllLoop_live(copy, k, list, plugin) ==
    IF k > Len(list) THEN [raised |-> FALSE, list |-> list]
    ELSE IF list[k].plugin = plugin
    THEN LET r == list_remove(list, list[k])
         IN  IF r.raised THEN r
             ELSE UnregisterAllLoop_live(copy, k + 1, r.list, plugin)
    ELSE UnregisterAllLoop_live(copy, k + 1, list, plugin)

\* for command in copy[k..]: if command["plugin"] == plugin: list.remove(command)
RECURSIVE UnregisterAllLoop(_, _, _, _)
UnregisterAllLoop(copy, k, list, plugin) ==
    IF k > Len(copy) THEN [raised |-> FALSE, list |-> list]
    ELSE IF copy[k].plugin = plugin
    THEN LET r == list_remove(list, copy[k])
         IN  IF r.raised THEN r
             ELSE UnregisterAllLoop(copy, k + 1, r.list, plugin)
    ELSE UnregisterAllLoop(copy, k + 1, list, plugin)

\* the second loop left out: the pattern entries of the plugin stay
unregister_all_commands_for_plugin_exact_only(plugin) ==
    /\ LET r1 == UnregisterAllLoop(_commands, 1, _commands, plugin)
       IN  /\ _commands' = r1.list
           /\ lastOp' = Op("unregister_all_commands_for_plugin", <<plugin>>, r1.raised)
    /\ UNCHANGED <<_modern_commands, command_prefix, dvars>>
    /\ Mutation

unregister_all_commands_for_plugin(plugin) ==
    /\ LET r1 == UnregisterAllLoop(_commands, 1, _commands, plugin)
           r2 == UnregisterAllLoop(_modern_commands, 1, _modern_commands, plugin)
       IN  /\ _commands' = r1.list
           /\ _modern_commands' = IF r1.raised THEN _modern_commands ELSE r2.list
           /\ lastOp' = Op("unregister_all_commands_for_plugin", <<plugin>>,
                           r1.raised \/ r2.raised)
    /\ UNCHANGED <<command_prefix, dvars>>
    /\ Mutation

\* the entries without a handler left out, as the dispatcher leaves them out
get_available_commands_for_user_handled(user) ==
    SelectSeq(_commands, LAMBDA e :
        has_permission(e.required_permission, user) /\ e.handler # None)

\* [i for i in self._commands if i["required_permission"].has_permission(user)]
get_available_commands_for_user(user) ==
    SelectSeq(_commands, LAMBDA e : has_permission(e.required_permission, user))

\* [i for i in self._commands if i["command"] == command]
get_info_for_command(command) ==
    SelectSeq(_commands, LAMBDA e : e.command = command)

(***************************************************************************)
(* handle_command.  The coroutine runs without interruption from one await *)
(* to the next; each action below is one such stretch.                     *)
(***************************************************************************)
Messages == {[id |-> "m", content |-> c] : c \in Contents}

Channels == {"chan"}

NoArgs == [tuple |-> FALSE, v |-> <<>>]

\* if command["command"] == command_name and command["handler"] is not None
exact_matches(command, name) ==
    command.command = name /\ command.handler # None

\* the permission check left out
exact_permitted_dropped(command, a) == TRUE

\* if command["required_permission"].has_permission(args.author)
exact_permitted(command, a) ==
    has_permission(command.required_permission, a.author)

\* Pattern.search in place of Pattern.match: a match anywhere in the body
modern_matches_search(command, a, prefix) ==
    /\ re_findall(command.command, lstrip(a.content, prefix)) # <<>>
    /\ command.handler # None

\* if command["command"].match(args.content.lstrip(prefix)) and
\*    command["handler"] is not None
modern_matches(command, a, prefix) ==
    /\ re_match(command.command, lstrip(a.content, prefix)) # NoMatch
    /\ command.handler # None

\* if command["required_permission"].has_permission(args["author"])
modern_permitted(command, a) ==
    has_permission(command.required_permission, a.author)

\* command["command"].findall(args.content.lstrip(prefix))
modern_found(command, a, prefix) ==
    re_findall(command.command, lstrip(a.content, prefix))

\* findall(...)[-1] in place of findall(...)[0]
modern_event_last(command, a, prefix) ==
    CommandSentEvent(a.message, a.author, a.channel, command.command_string,
                     modern_found(command, a, prefix)[Len(modern_found(command, a, prefix))])

\* CommandSentEvent(args.message, args.author, args.channel,
\*                  command["command_string"], findall(...)[0])
modern_event(command, a, prefix) ==
    CommandSentEvent(a.message, a.author, a.channel, command.command_string,
                     modern_found(command, a, prefix)[1])

\* the list iterator of the first loop: the next entry from index i on whose
\* handler is to be awaited, 0 when the list is exhausted
RECURSIVE NextExact(_, _, _, _)
NextExact(list, i, name, a) ==
    IF i > Len(list) THEN 0
    ELSE IF exact_matches(list[i], name) /\ exact_permitted(list[i], a) THEN i
    ELSE NextExact(list, i + 1, name, a)

\* the same for the second loop
RECURSIVE NextModern(_, _, _, _)
NextModern(list, i, a, prefix) ==
    IF i > Len(list) THEN 0
    ELSE IF modern_matches(list[i], a, prefix) /\ modern_permitted(list[i], a) THEN i
    ELSE NextModern(list, i + 1, a, prefix)

Call(table, entry, event) ==
    [table |-> table, entry |-> entry, event |-> event, outcome |-> "running"]

\* handle_command from the entry i of a loop up to its next await, its return
\* or the exception that leaves it: where it stands then, the iterator's index
\* and the calls made, cs being the calls so far
Continue(loop, i, name, a, cs) ==
    With(IF loop = "exact" THEN NextExact(_commands, i, name, a) ELSE 0, LAMBDA j :
    With(NextModern(_modern_commands, IF loop = "exact" THEN 1 ELSE i,
                    a, command_prefix), LAMBDA k :
        IF j # 0
        THEN [pc |-> "await_exact", it |-> j + 1,
              calls |-> Append(cs, Call("exact", _commands[j], a))]
        ELSE IF k # 0
        THEN IF modern_found(_modern_commands[k], a, command_prefix) = <<>>
             THEN [pc |-> "raised", it |-> k + 1, calls |-> cs]    \* IndexError
             ELSE [pc |-> "await_modern", it |-> k + 1,
                   calls |-> Append(cs, Call("modern", _modern_commands[k],
                        modern_event(_modern_commands[k], a, command_prefix)))]
        ELSE [pc |-> "done", it |-> 0, calls |-> cs]))

\* the dispatch d goes on as Continue found
Goes(d, r) ==
    \E x \in {r} :
    /\ pc' = [pc EXCEPT ![d] = x.pc]
    /\ it' = [it EXCEPT ![d] = x.it]
    /\ calls' = [calls EXCEPT ![d] = x.calls]

\* the call handle_command(name, a)
handle_command(d, name, a) ==
    /\ pc[d] = "idle"
    /\ command_name' = [command_name EXCEPT ![d] = name]
    /\ args' = [args EXCEPT ![d] = a]
    /\ Goes(d, Continue("exact", 1, name, a, <<>>))
    /\ UNCHANGED <<tables, command_prefix, lastOp, warnings, interleaved>>

\* the first loop entered again after an await of the second
Loop_restart(d) == "exact"

Loop(d) == IF pc[d] = "await_exact" THEN "exact" ELSE "modern"

\* the handler left to run as a task of its own (ensure_future in place of
\* await): the loop goes on while the call is running
Outcome_detached(cs, o) == cs

Outcome(cs, o) == [cs EXCEPT ![Len(cs)].outcome = o]

\* the except clause without its report
timeout_warning_silent(command) == <<>>

\* the warning of the except clause:
\* "Handling of {} command from plugin {} timed out.".format(command, name)
timeout_warning(command) ==
    <<[command |-> command, plugin |-> manifest_name(command.plugin)]>>

\* await asyncio.wait_for(...) returns: the handler completed in time
HandlerReturns(d) ==
    /\ InFlight(d)
    /\ Goes(d, Continue(Loop(d), it[d], command_name[d], args[d],
                         Outcome(calls[d], "returned")))
    /\ UNCHANGED <<tables, command_prefix, lastOp, command_name, args, warnings,
                   interleaved>>

\* no timeout given to wait_for: the timer never fires
HandlerTimesOut_never(d) == InFlight(d) /\ UNCHANGED vars

\* no except clause: the TimeoutError leaves handle_command
HandlerTimesOut_uncaught(d) ==
    /\ InFlight(d)
    /\ pc' = [pc EXCEPT ![d] = "raised"]
    /\ calls' = [calls EXCEPT ![d] = Outcome(calls[d], "timeout")]
    /\ UNCHANGED <<tables, command_prefix, lastOp, command_name, args, it,
                   warnings, interleaved>>

\* await asyncio.wait_for(...) raises asyncio.TimeoutError: except clause
HandlerTimesOut(d) ==
    /\ InFlight(d)
    /\ warnings' = [warnings EXCEPT ![d] =
                        @ \o timeout_warning(calls[d][Len(calls[d])].entry)]
    /\ Goes(d, Continue(Loop(d), it[d], command_name[d], args[d],
                         Outcome(calls[d], "timeout")))
    /\ UNCHANGED <<tables, command_prefix, lastOp, command_name, args, interleaved>>

\* await asyncio.wait_for(...) raises what the handler raised: no except
\* clause takes it and it leaves handle_command
HandlerRaises(d) ==
    /\ InFlight(d)
    /\ pc' = [pc EXCEPT ![d] = "raised"]
    /\ calls' = [calls EXCEPT ![d] = Outcome(calls[d], "raised")]
    /\ UNCHANGED <<tables, command_prefix, lastOp, command_name, args, it,
                   warnings, interleaved>>

\* handle_command has returned or raised: its caller goes on, and the task of
\* the model is free for the next message
Return(d) ==
    /\ pc[d] \in {"done", "raised"}
    /\ pc' = [pc EXCEPT ![d] = "idle"]
    /\ command_name' = [command_name EXCEPT ![d] = None]
    /\ args' = [args EXCEPT ![d] = None]
    /\ it' = [it EXCEPT ![d] = 0]
    /\ calls' = [calls EXCEPT ![d] = <<>>]
    /\ warnings' = [warnings EXCEPT ![d] = <<>>]
    /\ interleaved' = [interleaved EXCEPT ![d] = 0]
    /\ UNCHANGED <<tables, command_prefix, lastOp>>

(***************************************************************************)
(* The specifications.                                                     *)
(***************************************************************************)
Entry(n, r, p, h) ==
    [command |-> n, description |-> "text", required_permission |-> r,
     plugin |-> p, handler |-> h]

\* the register_command calls of the two plugins
PluginCommands ==
    { Entry("hello", "everyone", "p1", "H"),
      Entry("hello", "admin_only", "p2", "H"),
      Entry("slow", "everyone", "p1", None) }

\* the register_modern_command calls of the two plugins
PluginModernCommands ==
    { Entry(<<"a">>, "everyone", "p1", "H"),
      Entry(<<"a", "(", ".", "+", ")">>, "admin_only", "p2", "H") }

\* the messages dispatched
PluginEvents ==
    {CommandSentEvent([id |-> "m", content |-> c], u, "chan", n, NoArgs) :
        c \in {<<"!", "a", "b">>, <<"!", "b", "a">>}, u \in Users, n \in Names}

MaxCommands == 2

MaxInterleaved == 1

\* a dispatch that has returned hands control to its caller at once: nothing
\* else runs before Return
Returning == \E d \in Dispatches : pc[d] \in {"done", "raised"}

\* a table operation may run: no dispatch is returning, and the dispatches in
\* flight have seen fewer than MaxInterleaved table changes
Quiet ==
    /\ ~Returning
    /\ \A d \in Dispatches : InFlight(d) => interleaved[d] < MaxInterleaved

RegisterOf(entries, max) ==
    /\ Quiet
    /\ Len(_commands) < max
    /\ \E e \in entries :
           register_command(e.command, e.description, e.required_permission,
                            e.plugin, e.handler)

RegisterModernOf(entries, max) ==
    /\ Quiet
    /\ Len(_modern_commands) < max
    /\ \E e \in entries :
           register_modern_command(e.command, e.description, e.required_permission,
                                   e.plugin, e.handler)

Register == RegisterOf(PluginCommands, MaxCommands)

RegisterModern == RegisterModernOf(PluginModernCommands, MaxCommands)

Unregister ==
    /\ Quiet
    /\ \E n \in Names, p \in Plugins : unregister_command(n, p)

UnregisterAll ==
    /\ Quiet
    /\ \E p \in Plugins : unregister_all_commands_for_plugin(p)

DispatchOf(d, events) == \E a \in events : handle_command(d, a.command, a)

Dispatch(d) == DispatchOf(d, PluginEvents)

Next ==
    \/ Register
    \/ RegisterModern
    \/ Unregister
    \/ UnregisterAll
    \/ Dispatch("d1")
    \/ HandlerReturns("d1")
    \/ HandlerTimesOut("d1")
    \/ HandlerRaises("d1")
    \/ Return("d1")

Spec == Init /\ [][Next]_vars

\* Spec for the messages "hello" with text !ab, and the entries that take them
FairCommands == {e \in PluginCommands : e.command = "hello"}

FairModernCommands == {e \in PluginModernCommands : e.required_permission = "everyone"}

FairEvents == {a \in PluginEvents : a.command = "hello" /\ a.content = <<"!", "a", "b">>}

FairNext ==
    \/ RegisterOf(FairCommands, MaxCommands)
    \/ RegisterModernOf(FairModernCommands, MaxCommands)
    \/ Unregister
    \/ UnregisterAll
    \/ DispatchOf("d1", FairEvents)
    \/ HandlerReturns("d1")
    \/ HandlerTimesOut("d1")
    \/ HandlerRaises("d1")
    \/ Return("d1")

\* the timer of asyncio.wait_for fires unless the handler ends first
FairSpec == Init /\ [][FairNext]_vars /\ WF_vars(HandlerTimesOut("d1"))

(***************************************************************************)
(* The properties of the dispatcher, checked under Spec.                   *)
(***************************************************************************)
IsPrefix(s, u) == Len(s) <= Len(u) /\ s = SubSeq(u, 1, Len(s))

\* the entries of the calls a dispatch made from one table, in order
Invoked(d, table) ==
    LET cs == SelectSeq(calls[d], LAMBDA c : c.table = table)
    IN  [k \in 1..Len(cs) |-> cs[k].entry]

Body(d) == lstrip(args[d].content, command_prefix)

\* the entries of the first table whose handler the dispatch has to invoke
ExactDue(d) ==
    SelectSeq(_commands, LAMBDA e :
        /\ e.command = command_name[d]
        /\ e.handler # None
        /\ has_permission(e.required_permission, args[d].author))

\* the entries of the second table whose handler the dispatch has to invoke
ModernDue(d) ==
    SelectSeq(_modern_commands, LAMBDA e :
        /\ MatchAt(e.command, Body(d), 0) # NoMatch
        /\ e.handler # None
        /\ has_permission(e.required_permission, args[d].author))

HandlerRaised(d) ==
    calls[d] # <<>> /\ calls[d][Len(calls[d])].outcome = "raised"

\* C1: while no table changes during a dispatch, once its first loop is left
\* (for the second loop, by returning or by raising) it has invoked, one call
\* each, the handlers of all the entries with the dispatched name, a handler
\* and a permission accepting the author.
C1_EveryExactMatchInvoked ==
    \A d \in Dispatches :
        (pc[d] \in {"await_modern", "done", "raised"} /\ interleaved[d] = 0) =>
            Invoked(d, "exact") = ExactDue(d)

\* C1, for the dispatches none of whose handlers raised: the calls made from
\* the exact table are a prefix of the entries due, and all of them once the
\* first loop is over.
C1_EveryExactMatchInvokedOnce ==
    \A d \in Dispatches :
        (pc[d] # "idle" /\ interleaved[d] = 0) =>
            /\ IsPrefix(Invoked(d, "exact"), ExactDue(d))
            /\ (pc[d] \in {"await_modern", "done"} =>
                    Invoked(d, "exact") = ExactDue(d))

\* two entries of the same name both invoked, the first one timing out
C1_Witness ==
    /\ pc["d1"] = "done" /\ interleaved["d1"] = 0
    /\ Len(_commands) = 2
    /\ _commands[1].command = _commands[2].command
    /\ _commands[1].plugin # _commands[2].plugin
    /\ Invoked("d1", "exact") = _commands
    /\ calls["d1"][1].outcome = "timeout"

\* C2: no handler is invoked for an author its entry's permission refuses,
\* whatever happens to the tables; nothing is reported for an entry that was
\* not invoked, and a dispatch raises only out of a handler it invoked.
C2_NoInvocationWithoutPermission ==
    \A d \in Dispatches :
        /\ \A k \in 1..Len(calls[d]) :
               has_permission(calls[d][k].entry.required_permission, args[d].author)
        /\ \A k \in 1..Len(warnings[d]) :
               \E j \in 1..Len(calls[d]) : calls[d][j].entry = warnings[d][k].command
        /\ (pc[d] = "raised" => HandlerRaised(d))

\* a guest's dispatch that passed an admin-only entry in each table in silence
C2_Witness ==
    /\ pc["d1"] = "done" /\ interleaved["d1"] = 0
    /\ args["d1"].author = "guest"
    /\ \E k \in 1..Len(_commands) :
           /\ _commands[k].command = command_name["d1"]
           /\ _commands[k].handler # None
           /\ _commands[k].required_permission = "admin_only"
    /\ \E k \in 1..Len(_modern_commands) :
           /\ MatchAt(_modern_commands[k].command, Body("d1"), 0) # NoMatch
           /\ _modern_commands[k].handler # None
           /\ _modern_commands[k].required_permission = "admin_only"
    /\ calls["d1"] # <<>>
    /\ warnings["d1"] = <<>>

\* C4: the warnings of a dispatch are, in order, one for each of its handler
\* invocations that timed out, naming the entry and its plugin's name.
C4_OneWarningPerTimeout ==
    \A d \in Dispatches :
        LET timed == SelectSeq(calls[d], LAMBDA c : c.outcome = "timeout")
        IN  warnings[d] =
                [k \in 1..Len(timed) |->
                    [command |-> timed[k].entry,
                     plugin |-> manifest_name(timed[k].entry.plugin)]]

\* a dispatch with a handler that timed out and one that completed
C4_Witness ==
    /\ pc["d1"] = "done"
    /\ \E j, k \in 1..Len(calls["d1"]) :
           /\ calls["d1"][j].outcome = "timeout"
           /\ calls["d1"][k].outcome = "returned"
    /\ Len(warnings["d1"]) = 1
    /\ warnings["d1"][1].plugin \in {"Alpha", "Beta"}

\* C9: handle_command raises only what a handler it awaited raised: not when
\* nothing matches, not when a permission refuses, not when a handler times
\* out, in neither loop.
C9_RaisesOnlyOutOfAHandler ==
    \A d \in Dispatches : pc[d] = "raised" => HandlerRaised(d)

\* a dispatch that returned after a refused entry and a timeout in each loop
C9_Witness ==
    /\ pc["d1"] = "done"
    /\ Len(ExactDue("d1")) < Len(get_info_for_command(command_name["d1"]))
    /\ \E j, k \in 1..Len(calls["d1"]) :
           /\ calls["d1"][j].table = "exact" /\ calls["d1"][j].outcome = "timeout"
           /\ calls["d1"][k].table = "modern" /\ calls["d1"][k].outcome = "timeout"

\* C10: the calls of a dispatch are those of the exact table, then those of
\* the pattern table; only the last call can be running; while no table
\* changes each part follows the order of its table.
C10_ExactThenPatternInOrder ==
    \A d \in Dispatches :
        /\ \A j, k \in 1..Len(calls[d]) :
               (j < k /\ calls[d][j].table = "modern") => calls[d][k].table = "modern"
        /\ \A j \in 1..(Len(calls[d]) - 1) : calls[d][j].outcome # "running"
        /\ (pc[d] = "await_modern" =>
                calls[d][Len(calls[d])].table = "modern")
        /\ (pc[d] # "idle" /\ interleaved[d] = 0) =>
                /\ IsPrefix(Invoked(d, "exact"), ExactDue(d))
                /\ IsPrefix(Invoked(d, "modern"), ModernDue(d))
                /\ (Invoked(d, "modern") # <<>> => Invoked(d, "exact") = ExactDue(d))

\* two exact calls followed by two pattern calls, each in table order
C10_Witness ==
    /\ pc["d1"] = "done" /\ interleaved["d1"] = 0
    /\ Len(calls["d1"]) = 4
    /\ _commands[1] # _commands[2]
    /\ _modern_commands[1] # _modern_commands[2]
    /\ Invoked("d1", "exact") = _commands
    /\ Invoked("d1", "modern") = _modern_commands

(***************************************************************************)
(* Termination of a dispatch, checked under FairSpec: the timer of         *)
(* asyncio.wait_for fires unless the handler ends first.                   *)
(***************************************************************************)
\* C3: a dispatch waiting for a handler eventually gets past that handler
\* and eventually returns, unless a handler raised.
C3_TimeoutLetsTheDispatchReturn ==
    InFlight("d1") ~> (pc["d1"] = "done" \/ (pc["d1"] = "raised" /\ HandlerRaised("d1")))

\* a dispatch that returned after a timeout followed by a further call
C3_Witness ==
    /\ pc["d1"] = "done"
    /\ \E j \in 1..(Len(calls["d1"]) - 1) : calls["d1"][j].outcome = "timeout"
    /\ calls["d1"][Len(calls["d1"])].outcome = "timeout"

(***************************************************************************)
(* The pattern commands, checked under SpecModern: one plugin registers    *)
(* patterns of every shape, and every message text is dispatched.          *)
(***************************************************************************)
ModernCommands ==
    {Entry(re, "everyone", "p1", "H") : re \in Patterns}
        \cup {Entry(<<"a">>, "admin_only", "p2", None)}

ModernEvents ==
    {CommandSentEvent(m, u, "chan", "hello", NoArgs) : m \in Messages, u \in Users}

MaxPatterns == 2

ModernNext ==
    \/ RegisterModernOf(ModernCommands, MaxPatterns)
    \/ UnregisterAll
    \/ DispatchOf("d1", ModernEvents)
    \/ HandlerReturns("d1")
    \/ HandlerTimesOut("d1")
    \/ HandlerRaises("d1")
    \/ Return("d1")

SpecModern == Init /\ [][ModernNext]_vars

\* the calls a dispatch made from the pattern table
ModernCalls(d) == SelectSeq(calls[d], LAMBDA c : c.table = "modern")

\* Pattern.fullmatch(string): some way of matching the pattern from the start
\* of the string ends at its end
re_fullmatch(pat, s) ==
    LET rs == Items(pat.nodes, 1, s, StartAt(0, pat.groups))
    IN  \E k \in 1..Len(rs) : rs[k].pos = Len(s)

\* C7 as stated: a pattern entry's handler is invoked only when its pattern
\* matches the entire prefix-stripped body.
C7_InvokedOnlyOnFullMatch ==
    \A d \in Dispatches : \A k \in 1..Len(ModernCalls(d)) :
        re_fullmatch(ModernCalls(d)[k].entry.command, Body(d))

\* C7, amended: a pattern entry's handler is invoked only when its pattern
\* matches a leading part of the prefix-stripped body (a match that starts at
\* the first character of the body and may end before its end); a body that
\* only contains a match further on produces no invocation of that entry.
C7_InvokedOnlyOnMatchAtStart ==
    \A d \in Dispatches : \A k \in 1..Len(ModernCalls(d)) :
        LET m == MatchAt(ModernCalls(d)[k].entry.command, Body(d), 0)
        IN  m # NoMatch /\ m.start = 0 /\ m.pos <= Len(Body(d))

\* a dispatch of !ab over the table [a, ^a$] that has returned: it invoked
\* the entry a, which matches the leading part of the body, and not ^a$
C7_Witness ==
    /\ pc["d1"] = "done" /\ interleaved["d1"] = 0
    /\ Body("d1") = <<"a", "b">>
    /\ Len(_modern_commands) = 2
    /\ _modern_commands[1].command_string = <<"a">>
    /\ _modern_commands[2].command_string = <<"^", "a", "$">>
    /\ Invoked("d1", "modern") = <<_modern_commands[1]>>

\* the first capture group of a match, empty when there is none or it took
\* no part in the match
FirstGroup(pat, s, m) ==
    IF pat.groups = 0 THEN <<>> ELSE SpanText(s, m.caps[1])

\* C8 as stated: the handler of a matching pattern entry receives a context
\* with the message, author and channel of the inbound event, the pattern
\* source as command, and as captured argument the first capture group of the
\* match, empty when the pattern has no group or the group took no part.
C8_ContextHoldsFirstGroup ==
    \A d \in Dispatches : \A k \in 1..Len(ModernCalls(d)) :
        LET c == ModernCalls(d)[k]
            m == MatchAt(c.entry.command, Body(d), 0)
        IN  /\ c.event.message = args[d].message
            /\ c.event.author = args[d].author
            /\ c.event.channel = args[d].channel
            /\ c.event.command = c.entry.command_string
            /\ c.event.args = [tuple |-> FALSE,
                               v |-> <<FirstGroup(c.entry.command, Body(d), m)>>]

\* C8, amended: the context has the message, author and channel of the
\* inbound event and the pattern source as command; its captured argument is
\* the whole matched text when the pattern has no capture group, the text of
\* the group (empty when it took no part in the match) when it has exactly
\* one, and the tuple of the texts of all its groups when it has several.
C8_ContextHoldsFindallItem ==
    \A d \in Dispatches : \A k \in 1..Len(ModernCalls(d)) :
        LET c == ModernCalls(d)[k]
            pat == c.entry.command
            m == MatchAt(pat, Body(d), 0)
            text == SubSeq(Body(d), 1, m.pos)
        IN  /\ m # NoMatch
            /\ c.event.message = args[d].message
            /\ c.event.author = args[d].author
            /\ c.event.channel = args[d].channel
            /\ c.event.command = c.entry.command_string
            /\ c.event.content = args[d].content
            /\ pat.groups = 0 => c.event.args = [tuple |-> FALSE, v |-> <<text>>]
            /\ pat.groups = 1 =>
                   c.event.args = [tuple |-> FALSE, v |-> <<SpanText(Body(d), m.caps[1])>>]
            /\ pat.groups > 1 =>
                   c.event.args = [tuple |-> TRUE,
                                   v |-> [g \in 1..pat.groups |->
                                             SpanText(Body(d), m.caps[g])]]

\* a dispatch of !aba that has returned after invoking a(b)? with the
\* argument b, the group of the first of the two matches in the body
C8_Witness ==
    /\ pc["d1"] = "done"
    /\ Body("d1") = <<"a", "b", "a">>
    /\ Len(calls["d1"]) = 1
    /\ calls["d1"][1].entry.command_string = <<"a", "(", "b", ")", "?">>
    /\ calls["d1"][1].event.args = [tuple |-> FALSE, v |-> <<<<"b">>>>]

(***************************************************************************)
(* The table operations, checked under SpecTable: the two plugins register *)
(* and unregister in any order, and lastOp keeps the last operation with   *)
(* the tables it found.                                                    *)
(***************************************************************************)
TableCommands ==
    { Entry("hello", "everyone", "p1", "H"),
      Entry("hello", "admin_only", "p1", "H"),
      Entry("hello", "everyone", "p2", "H"),
      Entry("slow", "everyone", "p1", None) }

\* the pattern a and the malformed a( and +a
TableModernCommands ==
    { Entry(<<"a">>, "everyone", "p1", "H"),
      Entry(<<"a">>, "everyone", "p2", "H"),
      Entry(<<"a", "(">>, "everyone", "p1", "H"),
      Entry(<<"+", "a">>, "everyone", "p2", "H") }

MaxEntries == 3

InitTable == Constructed(NoOp)

\* a caller asks for the commands of a user
ListForUser ==
    /\ \E user \in Users :
           lastOp' = Query("get_available_commands_for_user", <<user>>,
                           get_available_commands_for_user(user))
    /\ UNCHANGED <<tables, command_prefix, dvars, interleaved>>

\* a caller asks for the entries of a name
FindByName ==
    /\ \E name \in Names :
           lastOp' = Query("get_info_for_command", <<name>>, get_info_for_command(name))
    /\ UNCHANGED <<tables, command_prefix, dvars, interleaved>>

TableNext ==
    \/ RegisterOf(TableCommands, MaxEntries)
    \/ RegisterModernOf(TableModernCommands, MaxEntries)
    \/ Unregister
    \/ UnregisterAll
    \/ ListForUser
    \/ FindByName

SpecTable == InitTable /\ [][TableNext]_vars

OwnedBy(plugin, list) == SelectSeq(list, LAMBDA e : e.plugin = plugin)

NotOwnedBy(plugin, list) == SelectSeq(list, LAMBDA e : e.plugin # plugin)

\* C5: after unregister_all_commands_for_plugin(owner) neither table has an
\* entry of owner, and each table is what it was without the entries of
\* owner: the entries of the other plugins, all of them, in their order (so
\* the tables it found when owner had no entry); the call does not raise.
C5_UnregisterAllRemovesTheOwnersEntriesOnly ==
    lastOp.op = "unregister_all_commands_for_plugin" =>
        LET owner == lastOp.a[1]
        IN  /\ ~lastOp.raised
            /\ OwnedBy(owner, _commands) = <<>>
            /\ OwnedBy(owner, _modern_commands) = <<>>
            /\ _commands = NotOwnedBy(owner, lastOp.pre[1])
            /\ _modern_commands = NotOwnedBy(owner, lastOp.pre[2])
            /\ (OwnedBy(owner, lastOp.pre[1]) = <<>> /\ OwnedBy(owner, lastOp.pre[2]) = <<>>)
                   => tables = lastOp.pre

\* unregister_all_commands_for_plugin has run on an exact table with two
\* adjacent entries of the owner before one of the other plugin, and a
\* pattern table with the other plugin's entry between two of the owner's
C5_Witness ==
    /\ lastOp.op = "unregister_all_commands_for_plugin"
    /\ Len(lastOp.pre[1]) = 3
    /\ lastOp.pre[1][1].plugin = lastOp.a[1]
    /\ lastOp.pre[1][2].plugin = lastOp.a[1]
    /\ lastOp.pre[1][3].plugin # lastOp.a[1]
    /\ Len(lastOp.pre[2]) = 3
    /\ lastOp.pre[2][1].plugin = lastOp.a[1]
    /\ lastOp.pre[2][2].plugin # lastOp.a[1]
    /\ lastOp.pre[2][3].plugin = lastOp.a[1]
    /\ Len(_commands) = 1
    /\ Len(_modern_commands) = 1

\* C6: after unregister_command(name, owner) the exact table is what it was
\* without the entries of that name and owner, all of them removed and the
\* others in their order; the pattern table is what it was; the call does not
\* raise, with or without such an entry.
C6_UnregisterRemovesEveryNamedEntryOfTheOwner ==
    lastOp.op = "unregister_command" =>
        LET name == lastOp.a[1]
            owner == lastOp.a[2]
        IN  /\ ~lastOp.raised
            /\ _commands = SelectSeq(lastOp.pre[1],
                               LAMBDA e : ~(e.command = name /\ e.plugin = owner))
            /\ _modern_commands = lastOp.pre[2]

\* unregister_command has removed two equal entries that stood on both sides
\* of another plugin's entry of the same name, beside a pattern table with an
\* entry of the owner
C6_Witness ==
    /\ lastOp.op = "unregister_command"
    /\ Len(lastOp.pre[1]) = 3
    /\ lastOp.pre[1][1] = lastOp.pre[1][3]
    /\ lastOp.pre[1][1].command = lastOp.a[1]
    /\ lastOp.pre[1][1].plugin = lastOp.a[2]
    /\ lastOp.pre[1][2].command = lastOp.a[1]
    /\ lastOp.pre[1][2].plugin # lastOp.a[2]
    /\ _commands = <<lastOp.pre[1][2]>>
    /\ \E k \in 1..Len(_modern_commands) : _modern_commands[k].plugin = lastOp.a[2]

\* a pattern source free of the faults of the model's patterns: a quantifier
\* with nothing to repeat and a parenthesis without its partner
RECURSIVE Balanced(_, _, _)
Balanced(src, i, depth) ==
    IF i > Len(src) THEN depth = 0
    ELSE IF src[i] = "(" THEN Balanced(src, i + 1, depth + 1)
    ELSE IF src[i] = ")" THEN depth > 0 /\ Balanced(src, i + 1, depth - 1)
    ELSE Balanced(src, i + 1, depth)

WellFormed(src) ==
    /\ Balanced(src, 1, 0)
    /\ src # <<>> => src[1] \notin Quants
    /\ \A i \in 2..Len(src) : src[i] \in {"*", "+"} => src[i - 1] \notin Quants \cup {"(", "^", "$"}

\* C11: register_modern_command with a malformed pattern raises to its caller
\* and leaves both tables as they were; with a well-formed pattern it does
\* not raise and appends one entry, holding the source and its compiled
\* pattern, to the pattern table, the exact table being as it was.
C11_MalformedPatternRegistersNothing ==
    lastOp.op = "register_modern_command" =>
        LET src == lastOp.a[1]
        IN  IF WellFormed(src)
            THEN /\ ~lastOp.raised
                 /\ _commands = lastOp.pre[1]
                 /\ Len(_modern_commands) = Len(lastOp.pre[2]) + 1
                 /\ SubSeq(_modern_commands, 1, Len(lastOp.pre[2])) = lastOp.pre[2]
                 /\ _modern_commands[Len(_modern_commands)].command_string = src
                 /\ _modern_commands[Len(_modern_commands)].command.ok
                 /\ _modern_commands[Len(_modern_commands)].plugin = lastOp.a[2]
            ELSE /\ lastOp.raised
                 /\ tables = lastOp.pre

\* register_modern_command has raised on the malformed a( with entries in
\* both tables, which it left alone
C11_Witness ==
    /\ lastOp.op = "register_modern_command"
    /\ lastOp.a[1] = <<"a", "(">>
    /\ lastOp.raised
    /\ lastOp.pre[1] # <<>>
    /\ Len(lastOp.pre[2]) = 2
    /\ tables = lastOp.pre

(***************************************************************************)
(* The body of a message, checked under SpecModern.                        *)
(***************************************************************************)
\* C12: a dispatch of a message whose text does not begin with the command
\* prefix, or whose stripped body no registered pattern matches, invokes no
\* handler of a pattern entry and does not raise.
C12_NoPrefixOrNoMatchInvokesNothing ==
    \A d \in Dispatches :
        (/\ pc[d] # "idle"
         /\ interleaved[d] = 0
         /\ \/ ~IsPrefix(command_prefix, args[d].content)
            \/ \A k \in 1..Len(_modern_commands) :
                   re_match(_modern_commands[k].command, Body(d)) = NoMatch)
        => (ModernCalls(d) = <<>> /\ pc[d] # "raised")

(***************************************************************************)
(* The queries, checked under SpecTable.                                   *)
(***************************************************************************)
\* result holds the elements of list at the indices idx, all of them, in the
\* order of list
IsSelection(result, list, idx) ==
    /\ Len(result) = Cardinality(idx)
    /\ \A k \in idx : result[Cardinality({j \in idx : j <= k})] = list[k]

\* C13: after any sequence of table operations get_available_commands_for_user
\* returns the entries of the exact table whose permission accepts the user,
\* all of them, with or without a handler, in the order of the table, and no
\* entry of the pattern table; it leaves both tables as they were.
C13_ListForUserIsThePermittedExactEntries ==
    lastOp.op = "get_available_commands_for_user" =>
        /\ IsSelection(lastOp.result, _commands,
               {k \in 1..Len(_commands) :
                    has_permission(_commands[k].required_permission, lastOp.a[1])})
        /\ \A j \in 1..Len(lastOp.result) : "command_string" \notin DOMAIN lastOp.result[j]
        /\ tables = lastOp.pre

\* the guest has asked with three exact entries, one for the admin only and
\* one without a handler, and a pattern entry registered: two entries came
\* back, the one without a handler among them
C13_Witness ==
    /\ lastOp.op = "get_available_commands_for_user"
    /\ lastOp.a[1] = "guest"
    /\ Len(_commands) = 3
    /\ _commands[1].required_permission = "admin_only"
    /\ _modern_commands # <<>>
    /\ Len(lastOp.result) = 2
    /\ \E j \in 1..2 : lastOp.result[j].handler = None

\* C14: register_command does not raise and appends one entry of the name
\* and plugin given, whatever the table holds, the pattern table being left
\* alone; get_info_for_command returns the entries of the exact table with
\* the name asked for, all of them, in the order of the table, and leaves
\* both tables as they were.
C14_DuplicatesRegisteredAndAllFound ==
    /\ lastOp.op = "register_command" =>
           /\ ~lastOp.raised
           /\ Len(_commands) = Len(lastOp.pre[1]) + 1
           /\ SubSeq(_commands, 1, Len(lastOp.pre[1])) = lastOp.pre[1]
           /\ _commands[Len(_commands)].command = lastOp.a[1]
           /\ _commands[Len(_commands)].plugin = lastOp.a[2]
           /\ _modern_commands = lastOp.pre[2]
    /\ lastOp.op = "get_info_for_command" =>
           /\ IsSelection(lastOp.result, _commands,
                  {k \in 1..Len(_commands) : _commands[k].command = lastOp.a[1]})
           /\ tables = lastOp.pre

\* the entries of hello have been asked for with the same entry registered
\* twice and one of the other plugin after them: all three came back
C14_Witness ==
    /\ lastOp.op = "get_info_for_command"
    /\ lastOp.a[1] = "hello"
    /\ Len(lastOp.result) = 3
    /\ lastOp.result[1] = lastOp.result[2]
    /\ lastOp.result[3].plugin # lastOp.result[1].plugin
    /\ lastOp.result = _commands

(***************************************************************************)
(* The dispatcher and the faults of handlers, checked under Spec.          *)
(***************************************************************************)
\* C15: while no table changes during a dispatch that has no exact entry to
\* invoke, once the dispatch is over it has invoked the handlers of all the
\* pattern entries with a handler, a pattern matching the body and a
\* permission accepting the author, in the order of the table.
C15_EveryPatternMatchInvoked ==
    \A d \in Dispatches :
        (pc[d] \in {"done", "raised"} /\ interleaved[d] = 0 /\ ExactDue(d) = <<>>) =>
            Invoked(d, "modern") = ModernDue(d)

\* C16: a dispatch one of whose handlers failed with an error other than a
\* timeout has all the same attempted every entry it had to invoke, in both
\* tables (while no table changes during the dispatch).
C16_HandlerFaultLeavesTheOthersAttempted ==
    \A d \in Dispatches :
        (interleaved[d] = 0 /\ ~InFlight(d) /\ HandlerRaised(d)) =>
            /\ Invoked(d, "exact") = ExactDue(d)
            /\ Invoked(d, "modern") = ModernDue(d)

(***************************************************************************)
(* Removals during a dispatch, checked under SpecRace: the plugins         *)
(* register while no dispatch waits for a handler and unregister at any    *)
(* time, so that an entry in a table when a dispatch ends was in it from   *)
(* the start of that dispatch.                                             *)
(***************************************************************************)
NoneInFlight == \A d \in Dispatches : ~InFlight(d)

RaceNext ==
    \/ (NoneInFlight /\ Register)
    \/ (NoneInFlight /\ RegisterModern)
    \/ Unregister
    \/ UnregisterAll
    \/ Dispatch("d1")
    \/ HandlerReturns("d1")
    \/ HandlerTimesOut("d1")
    \/ HandlerRaises("d1")
    \/ Return("d1")

SpecRace == Init /\ [][RaceNext]_vars

\* C17: a dispatch that has returned has invoked the handler of every entry
\* that was registered during all of it and that it had to invoke, in both
\* tables, whatever entries were removed while it waited for a handler.
C17_RemovalSkipsNoRegisteredEntry ==
    \A d \in Dispatches :
        pc[d] = "done" =>
            /\ \A k \in 1..Len(ExactDue(d)) :
                   \E j \in 1..Len(calls[d]) : calls[d][j].entry = ExactDue(d)[k]
            /\ \A k \in 1..Len(ModernDue(d)) :
                   \E j \in 1..Len(calls[d]) : calls[d][j].entry = ModernDue(d)[k]

(***************************************************************************)
(* The prefix, checked under SpecModern.                                   *)
(***************************************************************************)
\* s without the string prefix at its start, once; s when it does not start
\* with prefix
StrippedOnce(s, prefix) ==
    IF IsPrefix(prefix, s) THEN SubSeq(s, Len(prefix) + 1, Len(s)) ELSE s

\* C18: the body matched against the patterns is the text of the message
\* with the command prefix removed once from its start: a dispatch that has
\* returned (no table changing meanwhile) has invoked the pattern entries
\* that have a handler, accept the author and match that body, and no other.
C18_BodyIsTheTextWithoutOnePrefix ==
    \A d \in Dispatches :
        (pc[d] = "done" /\ interleaved[d] = 0) =>
            Invoked(d, "modern") =
                SelectSeq(_modern_commands, LAMBDA e :
                    /\ re_match(e.command,
                                StrippedOnce(args[d].content, command_prefix)) # NoMatch
                    /\ e.handler # None
                    /\ has_permission(e.required_permission, args[d].author))

(***************************************************************************)
(* The unloading of a plugin during dispatches, checked under SpecUnload:  *)
(* Spec for the messages hello with text !ab, with the journal of the      *)
(* table operations kept.                                                  *)
(***************************************************************************)
UnloadNext ==
    \/ RegisterOf(FairCommands, MaxCommands)
    \/ RegisterModernOf(PluginModernCommands, MaxCommands)
    \/ UnregisterAll
    \/ DispatchOf("d1", FairEvents)
    \/ HandlerReturns("d1")
    \/ HandlerTimesOut("d1")
    \/ HandlerRaises("d1")
    \/ Return("d1")

SpecUnload == Constructed(NoOp) /\ [][UnloadNext]_vars

\* the dispatch d starts a handler in this step
Starts(d) == Len(calls'[d]) > Len(calls[d])

Started(d) == calls'[d][Len(calls'[d])]

\* C19: a handler is started only for an entry that is in its table at that
\* moment; and while unregister_all_commands_for_plugin(owner) is the last
\* table operation to have returned, no dispatch, begun before or after it,
\* starts the handler of an entry of owner.
C19_NoHandlerOfAnUnloadedPluginStarts ==
    [][\A d \in Dispatches :
           Starts(d) =>
               /\ \E k \in 1..Len(IF Started(d).table = "exact"
                                  THEN _commands ELSE _modern_commands) :
                      Started(d).entry = (IF Started(d).table = "exact"
                                          THEN _commands ELSE _modern_commands)[k]
               /\ lastOp.op = "unregister_all_commands_for_plugin" =>
                      Started(d).entry.plugin # lastOp.a[1]]_vars

\* a dispatch waited for the handler of a plugin's exact entry when the
\* plugin was unloaded with a pattern entry that matches the message; the
\* dispatch then went on to the other plugin's pattern entry
C19_Witness ==
    /\ lastOp.op = "unregister_all_commands_for_plugin"
    /\ interleaved["d1"] = 1
    /\ Len(calls["d1"]) = 2
    /\ calls["d1"][1].entry.plugin = lastOp.a[1]
    /\ calls["d1"][2].table = "modern"
    /\ calls["d1"][2].entry.plugin # lastOp.a[1]
    /\ calls["d1"][2].outcome = "running"
    /\ \E k \in 1..Len(lastOp.pre[2]) :
           /\ lastOp.pre[2][k].plugin = lastOp.a[1]
           /\ re_match(lastOp.pre[2][k].command, Body("d1")) # NoMatch
           /\ has_permission(lastOp.pre[2][k].required_permission, args["d1"].author)

(***************************************************************************)
(* Two messages dispatched at once, checked under SpecConcurrent: Spec for *)
(* the messages hello with text !ab, with two dispatches, the tables       *)
(* changing between the dispatches only.                                   *)
(***************************************************************************)
ConcurrentNext ==
    \/ (NoneInFlight /\ RegisterOf(FairCommands, MaxCommands))
    \/ (NoneInFlight /\ RegisterModernOf(FairModernCommands, MaxCommands))
    \/ (NoneInFlight /\ UnregisterAll)
    \/ \E d \in Dispatches :
           \/ DispatchOf(d, FairEvents)
           \/ HandlerReturns(d)
           \/ HandlerTimesOut(d)
           \/ HandlerRaises(d)
           \/ Return(d)

SpecConcurrent == Init /\ [][ConcurrentNext]_vars

\* C20: in a dispatch only the handler started last can be in flight, and it
\* is exactly while the dispatch waits at its await; every handler before it
\* has completed or timed out.
C20_OneHandlerInFlightPerDispatch ==
    \A d \in Dispatches :
        /\ \A j \in 1..(Len(calls[d]) - 1) : calls[d][j].outcome \in {"returned", "timeout"}
        /\ Cardinality({j \in 1..Len(calls[d]) : calls[d][j].outcome = "running"})
               = (IF InFlight(d) THEN 1 ELSE 0)
        /\ InFlight(d) => calls[d][Len(calls[d])].outcome = "running"

\* the two dispatches each wait for their second handler at the same time
C20_Witness ==
    /\ InFlight("d1") /\ InFlight("d2")
    /\ Len(calls["d1"]) = 2
    /\ Len(calls["d2"]) = 2
    /\ calls["d1"][1].outcome = "timeout"
    /\ calls["d2"][1].outcome = "returned"

====
